---- MODULE Spec2Model ----
(***************************************************************************)
(* JASSS User-Data API: the identity engine of src/src/dynamo.ts and the   *)
(* HTTP handlers that wrap it, over one DynamoDB table of user records.    *)
(*                                                                         *)
(* Spec     runs the API one request at a time (every handler is one       *)
(*          atomic action: its scan, its store command and its email).     *)
(* SpecConc runs up to MaxCalls requests concurrently; a request's scan,   *)
(*          its store command and its email are separate steps, as the     *)
(*          awaits of the code separate them.                              *)
(* SpecIO   runs the API one request at a time on a table that can reject  *)
(*          a command for a reason of the service or the transport.        *)
(* SpecProfile runs registrations and the profile routes with field names  *)
(*          in either letter case.                                         *)
(***************************************************************************)
EXTENDS Integers, Sequences, FiniteSets, TLC

VARIABLES
    store,    \* the DynamoDB table: user_id -> item (its attributes)
    nextId,   \* the next user_id randomUUID hands out (ids are never reused)
    now,      \* the wall clock, in hours
    outbox,   \* the last email the transport delivered
    resp,     \* the last HTTP response a handler returned
    pend      \* SpecConc: the requests in flight, by Lambda invocation

vars == <<store, nextId, now, outbox, resp, pend>>

(***************************************************************************)
(* Bounds of the model.                                                    *)
(***************************************************************************)
MaxIds == 2       \* user_ids handed out in one run
MaxTime == 1      \* hours the clock advances
MaxCalls == 2     \* requests in flight at once (SpecConc)

(* now.setHours(now.getHours() + 1): a reset token lives one hour. *)
OneHour == 1

(***************************************************************************)
(* Request inputs.  "bad" is a string email-validator rejects; "" stands   *)
(* for the defined but falsy provider values a JSON body can carry.  The   *)
(* handlers pass on every defined value of the body: NotAString stands for *)
(* a password that is a JSON number.                                       *)
(***************************************************************************)
Emails == {"a@x.com", "b@x.com"}
RequestEmails == Emails \cup {"bad"}
Passwords == {"pw1", "pw2"}
NotAString == "<number>"
JsonPasswords == Passwords \cup {NotAString}
Providers == {"google", "github", ""}
Usernames == {"alice"}
Tokens == {"t1", "t2"}
Salts == {"s1"}

(***************************************************************************)
(* Attribute values.  An attribute of an item is undefined (absent), a     *)
(* string, a bcrypt digest (a string that embeds its salt), or an ISO date *)
(* string.  One record shape keeps the four kinds comparable.              *)
(***************************************************************************)
Undef == [t |-> "undef", s |-> "", k |-> "", n |-> 0]
Str(s) == [t |-> "str", s |-> s, k |-> "", n |-> 0]
Digest(salt, secret) == [t |-> "hash", s |-> secret, k |-> salt, n |-> 0]
Date(h) == [t |-> "date", s |-> "", k |-> "", n |-> h]

(* JavaScript truthiness of an attribute: undefined and "" are falsy. *)
Truthy(v) == v.t # "undef" /\ v # Str("")

(***************************************************************************)
(* Credential hasher (bcryptjs).  hash salts the secret; compare recomputes *)
(* the digest with the digest's own salt.  Both throw "Illegal arguments"  *)
(* unless the secret is a string, and compare unless the digest is one (an *)
(* undefined password_hash is not).                                        *)
(***************************************************************************)
bcryptHash(secret, salt) == Digest(salt, secret)
bcryptCompare(secret, digest) == digest.t = "hash" /\ bcryptHash(secret, digest.k) = digest
bcryptHashThrows(secret) == secret = NotAString
bcryptCompareThrows(secret, digest) == secret = NotAString \/ digest.t = "undef"

(* email-validator: of the request emails, the well-formed ones. *)
EmailValidate(email) == email \in Emails

(***************************************************************************)
(* The table.  An item maps every attribute name to its value, Undef for   *)
(* an attribute the item does not have.                                    *)
(***************************************************************************)
Attrs == {"username", "Username", "email", "password_hash", "provider",
          "resetToken", "tokenExpiry"}
NoFields == [a \in {} |-> Undef]
Ids == 1..MaxIds

(* ScanCommand: all items, in an order the table chooses. *)
ScanOrders(st) ==
    {o \in [1..Cardinality(DOMAIN st) -> DOMAIN st] :
        \A i, j \in DOMAIN o : i # j => o[i] # o[j]}
ScanItems(st, o) == [i \in DOMAIN o |-> [user_id |-> o[i], attr |-> st[o[i]]]]
Scans(st) == {ScanItems(st, o) : o \in ScanOrders(st)}

(***************************************************************************)
(* What an engine function decides from its arguments and the scanned      *)
(* items: the response it will give, the one store command it sends        *)
(* first (cmd), and the email it sends after the command succeeded.        *)
(***************************************************************************)
Outcome(status, msg, param, id, cmd, key, fields, mail, to, token) ==
    [status |-> status, msg |-> msg, param |-> param, id |-> id,
     cmd |-> cmd, key |-> key, fields |-> fields,
     mail |-> mail, to |-> to, token |-> token]
Throw(status, msg, param) ==
    Outcome(status, msg, param, 0, "none", 0, NoFields, "none", "", "")
Return(id) ==
    Outcome(200, "", "", id, "none", 0, NoFields, "none", "", "")

(* A thrown Error that carries no statusCode: the handlers answer 500. *)
InternalError == Throw(500, "Illegal arguments", "")

(* PutCommand of databaseAddUser: undefined arguments leave no attribute. *)
databaseAddUser(username, email, passwordHash, provider) ==
    Outcome(200, "", "", 0, "put", 0,
            [a \in Attrs |->
                CASE a = "username" -> Str(username)
                  [] a = "email" -> Str(email)
                  [] a = "password_hash" -> passwordHash
                  [] a = "provider" -> provider
                  [] OTHER -> Undef],
            "none", "", "")

(* UpdateCommand of databaseEditUser, then the response that follows it. *)
databaseEditUser(userID, infoValues, status, msg, mail, to, token) ==
    Outcome(status, msg, "", userID, "update", userID, infoValues, mail, to, token)

(* Index of the first scanned item at or after k whose email is `email`, 0 if none. *)
RECURSIVE FirstMatch(_, _, _)
FirstMatch(items, email, k) ==
    IF k > Len(items) THEN 0
    ELSE IF items[k].attr.email = Str(email) THEN k
    ELSE FirstMatch(items, email, k + 1)

(* Mutant: registerUser without the scan for a taken email. *)
registerUserNoScan(items, username, password, email, salt) ==
    IF ~EmailValidate(email) THEN Throw(400, "Invalid Email", "")
    ELSE IF bcryptHashThrows(password) THEN InternalError
    ELSE databaseAddUser(username, email, bcryptHash(password, salt), Undef)

registerUser(items, username, password, email, salt) ==
    IF ~EmailValidate(email) THEN Throw(400, "Invalid Email", "")
    ELSE LET k == FirstMatch(items, email, 1) IN
         IF k # 0
         THEN Throw(409, "Email has been taken.${str}",
                    IF Truthy(items[k].attr.provider) THEN items[k].attr.provider.s ELSE "")
         ELSE IF bcryptHashThrows(password) THEN InternalError
         ELSE databaseAddUser(username, email, bcryptHash(password, salt), Undef)

(* Mutant: authenticateUser without the test for an OAuth account. *)
RECURSIVE authenticateLoopNoProvider(_, _, _, _)
authenticateLoopNoProvider(items, email, password, k) ==
    IF k > Len(items)
    THEN Throw(401, "Authentication Error (Incorrect email or password)", "")
    ELSE LET item == items[k] IN
         IF item.attr.email = Str(email)
         THEN IF bcryptCompareThrows(password, item.attr.password_hash) THEN InternalError
              ELSE IF bcryptCompare(password, item.attr.password_hash)
                   THEN Return(item.user_id)
                   ELSE authenticateLoopNoProvider(items, email, password, k + 1)
         ELSE authenticateLoopNoProvider(items, email, password, k + 1)

(* The scan loop of authenticateUser from item k on: a matching item whose *)
(* password does not verify does not end the loop.                         *)
RECURSIVE authenticateLoop(_, _, _, _)
authenticateLoop(items, email, password, k) ==
    IF k > Len(items)
    THEN Throw(401, "Authentication Error (Incorrect email or password)", "")
    ELSE LET item == items[k] IN
         IF item.attr.email = Str(email)
         THEN IF Truthy(item.attr.provider)
              THEN Throw(403, "You previously signed up using ${provider}. Please use that to sign in instead.",
                         item.attr.provider.s)
              ELSE IF bcryptCompareThrows(password, item.attr.password_hash) THEN InternalError
              ELSE IF bcryptCompare(password, item.attr.password_hash)
                   THEN Return(item.user_id)
                   ELSE authenticateLoop(items, email, password, k + 1)
         ELSE authenticateLoop(items, email, password, k + 1)

authenticateUser(items, email, password) == authenticateLoop(items, email, password, 1)

(* Mutant: authenticateOauthUser without the test for a password account. *)
authenticateOauthUserNoPasswordTest(items, username, provider, email) ==
    LET k == FirstMatch(items, email, 1) IN
    IF k = 0 THEN databaseAddUser(username, email, Undef, Str(provider))
    ELSE IF items[k].attr.provider = Str(provider)
         THEN Return(items[k].user_id)
    ELSE Throw(403, "You first signed up via ${provider}. Please use that provider instead.",
               items[k].attr.provider.s)

(* Mutant: authenticateOauthUser signing in whatever the provider. *)
authenticateOauthUserAnyProvider(items, username, provider, email) ==
    LET k == FirstMatch(items, email, 1) IN
    IF k = 0 THEN databaseAddUser(username, email, Undef, Str(provider))
    ELSE IF Truthy(items[k].attr.password_hash)
         THEN Throw(403, "You signed up with a password. Please sign in with your password instead.", "")
    ELSE Return(items[k].user_id)

authenticateOauthUser(items, username, provider, email) ==
    LET k == FirstMatch(items, email, 1) IN
    IF k = 0 THEN databaseAddUser(username, email, Undef, Str(provider))
    ELSE IF Truthy(items[k].attr.password_hash)
         THEN Throw(403, "You signed up with a password. Please sign in with your password instead.", "")
    ELSE IF items[k].attr.provider = Str(provider)
         THEN Return(items[k].user_id)
    ELSE Throw(403, "You first signed up via ${provider}. Please use that provider instead.",
               items[k].attr.provider.s)

(* Mutant: an allow-list that lets a user edit provider. *)
ADDITIONAL_USER_FIELDS_WithProvider == {"username", "provider"}

(* Configuration: the fields a user may edit, and those a user may read. *)
ADDITIONAL_USER_FIELDS == {"username"}
RETRIEVABLE_USER_FIELDS == {"username", "provider", "email"} \cup ADDITIONAL_USER_FIELDS

(* String.prototype.toLowerCase on the field names the requests carry. *)
ToLowerCase(field) == IF field = "Username" THEN "username" ELSE field

(* The info objects of /set requests: field/value pairs in the order of the body. *)
(* The maps that mix an editable field with another carry a new username.         *)
Infos ==
    { <<[field |-> "username", value |-> "alice"]>>,
      <<[field |-> "provider", value |-> "google"]>>,
      <<[field |-> "password_hash", value |-> "pw1"]>>,
      <<[field |-> "username", value |-> "bob"], [field |-> "email", value |-> "b@x.com"]>>,
      <<[field |-> "email", value |-> "b@x.com"], [field |-> "username", value |-> "bob"]>>,
      <<>> }

(* The field lists of /get requests, split at "," and trimmed. *)
FieldLists == { <<"username">>, <<"provider">>, <<"password_hash">> }

Range(seq) == {seq[i] : i \in DOMAIN seq}

(* Index of the first entry of `fields` (a sequence of names) not in `allowed`, 0 if none. *)
RECURSIVE FirstInvalid(_, _, _)
FirstInvalid(fields, allowed, k) ==
    IF k > Len(fields) THEN 0
    ELSE IF ToLowerCase(fields[k]) \notin allowed THEN k
    ELSE FirstInvalid(fields, allowed, k + 1)

InfoFields(info) == [i \in DOMAIN info |-> info[i].field]
InfoValues(info) ==
    [f \in Range(InfoFields(info)) |->
        Str(info[CHOOSE i \in DOMAIN info : info[i].field = f].value)]

(* Mutant: setUserInfo writing the fields that precede the first invalid one. *)
setUserInfoPartial(user_id, info) ==
    LET k == FirstInvalid(InfoFields(info), ADDITIONAL_USER_FIELDS, 1) IN
    IF k = 0 THEN databaseEditUser(user_id, InfoValues(info), 200, "", "none", "", "")
    ELSE IF k = 1 THEN Throw(400, "User field '${field}' is invalid", info[k].field)
    ELSE databaseEditUser(user_id, InfoValues(SubSeq(info, 1, k - 1)),
                          400, "User field '${field}' is invalid", "none", "", "")

setUserInfo(user_id, info) ==
    LET k == FirstInvalid(InfoFields(info), ADDITIONAL_USER_FIELDS, 1) IN
    IF k # 0 THEN Throw(400, "User field '${field}' is invalid", info[k].field)
    ELSE databaseEditUser(user_id, InfoValues(info), 200, "", "none", "", "")

(* GetCommand with a ProjectionExpression: the requested attributes the item has. *)
getUserInfo(st, user_id, fields) ==
    LET k == FirstInvalid(fields, RETRIEVABLE_USER_FIELDS, 1) IN
    IF k # 0 THEN Throw(400, "User field '${field}' is invalid", fields[k])
    ELSE IF user_id \notin DOMAIN st THEN Throw(400, "Invalid User Id", "")
    ELSE LET item == [f \in {g \in Range(fields) : st[user_id][g] # Undef} |-> st[user_id][f]] IN
         IF DOMAIN item = {} THEN Throw(400, "Uninitialised value/s: '${fields}'", "")
         ELSE Outcome(200, "", "", user_id, "none", 0, item, "none", "", "")

(* Mutant: changePassword clearing the pending reset with the password it writes. *)
changePasswordClearsReset(items, email, oldPassword, newPassword, salt) ==
    IF oldPassword = newPassword
    THEN Throw(400, "New password cannot be the same as your old password", "")
    ELSE LET a == authenticateUser(items, email, oldPassword) IN
         IF a.status = 403
         THEN Throw(403, "You cannot change your password as you signed in with a third-party provider.", "")
         ELSE IF a.status # 200 THEN a
         ELSE IF bcryptHashThrows(newPassword) THEN InternalError
         ELSE databaseEditUser(a.id,
                               [f \in {"resetToken", "tokenExpiry", "password_hash"} |->
                                   IF f = "password_hash" THEN bcryptHash(newPassword, salt)
                                   ELSE Str("")],
                               200, "", "none", "", "")

(* Mutant: changePassword storing the hash of the old password. *)
changePasswordHashesOld(items, email, oldPassword, newPassword, salt) ==
    IF oldPassword = newPassword
    THEN Throw(400, "New password cannot be the same as your old password", "")
    ELSE LET a == authenticateUser(items, email, oldPassword) IN
         IF a.status = 403
         THEN Throw(403, "You cannot change your password as you signed in with a third-party provider.", "")
         ELSE IF a.status # 200 THEN a
         ELSE IF bcryptHashThrows(newPassword) THEN InternalError
         ELSE databaseEditUser(a.id, [f \in {"password_hash"} |-> bcryptHash(oldPassword, salt)],
                               200, "", "none", "", "")

(* Mutant: changePassword answering every failed authentication as it does an OAuth account. *)
changePasswordForbidsAll(items, email, oldPassword, newPassword, salt) ==
    IF oldPassword = newPassword
    THEN Throw(400, "New password cannot be the same as your old password", "")
    ELSE LET a == authenticateUser(items, email, oldPassword) IN
         IF a.status # 200
         THEN Throw(403, "You cannot change your password as you signed in with a third-party provider.", "")
         ELSE IF bcryptHashThrows(newPassword) THEN InternalError
         ELSE databaseEditUser(a.id, [f \in {"password_hash"} |-> bcryptHash(newPassword, salt)],
                               200, "", "none", "", "")

(* Mutant: changePassword authenticating before it compares the two passwords. *)
changePasswordAuthFirst(items, email, oldPassword, newPassword, salt) ==
    LET a == authenticateUser(items, email, oldPassword) IN
    IF a.status = 403
    THEN Throw(403, "You cannot change your password as you signed in with a third-party provider.", "")
    ELSE IF a.status # 200 THEN a
    ELSE IF oldPassword = newPassword
    THEN Throw(400, "New password cannot be the same as your old password", "")
    ELSE IF bcryptHashThrows(newPassword) THEN InternalError
    ELSE databaseEditUser(a.id, [f \in {"password_hash"} |-> bcryptHash(newPassword, salt)],
                          200, "", "none", "", "")

changePassword(items, email, oldPassword, newPassword, salt) ==
    IF oldPassword = newPassword
    THEN Throw(400, "New password cannot be the same as your old password", "")
    ELSE LET a == authenticateUser(items, email, oldPassword) IN
         IF a.status = 403
         THEN Throw(403, "You cannot change your password as you signed in with a third-party provider.", "")
         ELSE IF a.status # 200 THEN a
         ELSE IF bcryptHashThrows(newPassword) THEN InternalError
         ELSE databaseEditUser(a.id, [f \in {"password_hash"} |-> bcryptHash(newPassword, salt)],
                               200, "", "none", "", "")

(* Mutant: deleteUser keeping the record and removing its password hash. *)
deleteUserSoft(userId) ==
    databaseEditUser(userId, [f \in {"password_hash"} |-> Undef], 200, "", "none", "", "")

deleteUser(userId) ==
    Outcome(200, "", "", userId, "delete", userId, NoFields, "none", "", "")

(* Mutant: sendPasswordResetToken keeping the reset that is pending and emailing a new token. *)
sendPasswordResetTokenKeepsPending(items, email, token, salt, date) ==
    IF ~EmailValidate(email) THEN Throw(400, "Email does not exist", "")
    ELSE LET k == FirstMatch(items, email, 1) IN
         IF k = 0 THEN Throw(400, "Email does not exist", "")
         ELSE IF Truthy(items[k].attr.provider)
              THEN Throw(403, "You previously signed up using ${provider}, so you do not have a password to reset.",
                         items[k].attr.provider.s)
         ELSE IF Truthy(items[k].attr.resetToken) /\ Truthy(items[k].attr.tokenExpiry)
              THEN Outcome(200, "", "", items[k].user_id, "none", 0, NoFields, "token", email, token)
         ELSE databaseEditUser(items[k].user_id,
                               [f \in {"resetToken", "tokenExpiry"} |->
                                   IF f = "resetToken" THEN bcryptHash(token, salt)
                                   ELSE Date(date + OneHour)],
                               200, "", "token", email, token)

(* Mutant: sendPasswordResetToken telling an unknown email from a malformed one. *)
sendPasswordResetTokenLeaky(items, email, token, salt, date) ==
    IF ~EmailValidate(email) THEN Throw(400, "Invalid Email", "")
    ELSE LET k == FirstMatch(items, email, 1) IN
         IF k = 0 THEN Throw(400, "Email does not exist", "")
         ELSE IF Truthy(items[k].attr.provider)
              THEN Throw(403, "You previously signed up using ${provider}, so you do not have a password to reset.",
                         items[k].attr.provider.s)
         ELSE databaseEditUser(items[k].user_id,
                               [f \in {"resetToken", "tokenExpiry"} |->
                                   IF f = "resetToken" THEN bcryptHash(token, salt)
                                   ELSE Date(date + OneHour)],
                               200, "", "token", email, token)

(* Mutant: sendPasswordResetToken storing the token hash without its expiry. *)
sendPasswordResetTokenNoExpiry(items, email, token, salt, date) ==
    IF ~EmailValidate(email) THEN Throw(400, "Email does not exist", "")
    ELSE LET k == FirstMatch(items, email, 1) IN
         IF k = 0 THEN Throw(400, "Email does not exist", "")
         ELSE IF Truthy(items[k].attr.provider)
              THEN Throw(403, "You previously signed up using ${provider}, so you do not have a password to reset.",
                         items[k].attr.provider.s)
         ELSE databaseEditUser(items[k].user_id,
                               [f \in {"resetToken"} |-> bcryptHash(token, salt)],
                               200, "", "token", email, token)

sendPasswordResetToken(items, email, token, salt, date) ==
    IF ~EmailValidate(email) THEN Throw(400, "Email does not exist", "")
    ELSE LET k == FirstMatch(items, email, 1) IN
         IF k = 0 THEN Throw(400, "Email does not exist", "")
         ELSE IF Truthy(items[k].attr.provider)
              THEN Throw(403, "You previously signed up using ${provider}, so you do not have a password to reset.",
                         items[k].attr.provider.s)
         ELSE databaseEditUser(items[k].user_id,
                               [f \in {"resetToken", "tokenExpiry"} |->
                                   IF f = "resetToken" THEN bcryptHash(token, salt)
                                   ELSE Date(date + OneHour)],
                               200, "", "token", email, token)

(* Mutant: resetPassword writing the new hash without clearing the token. *)
resetPasswordKeepsToken(items, email, token, newPassword, salt, date) ==
    IF ~EmailValidate(email) THEN Throw(400, "Email does not exist", "")
    ELSE LET k == FirstMatch(items, email, 1) IN
         IF k = 0 THEN Throw(400, "Email does not exist", "")
         ELSE LET item == items[k].attr IN
              IF Truthy(item.provider)
              THEN Throw(403, "You previously signed up using ${provider}, so you do not have a password to reset.",
                         item.provider.s)
              ELSE IF bcryptCompareThrows(newPassword, item.password_hash) THEN InternalError
              ELSE IF bcryptCompare(newPassword, item.password_hash)
              THEN Throw(400, "New password cannot be the same as your old password", "")
              ELSE IF item.resetToken = Undef \/ item.tokenExpiry = Undef
                      \/ item.resetToken = Str("") \/ item.tokenExpiry = Str("")
              THEN Throw(400, "Invalid Token", "")
              ELSE IF date >= item.tokenExpiry.n
              THEN databaseEditUser(items[k].user_id,
                                    [f \in {"resetToken", "tokenExpiry"} |-> Str("")],
                                    400, "Invalid Token", "none", "", "")
              ELSE IF ~bcryptCompare(token, item.resetToken)
              THEN Throw(400, "Invalid Token", "")
              ELSE databaseEditUser(items[k].user_id,
                                    [f \in {"password_hash"} |-> bcryptHash(newPassword, salt)],
                                    200, "", "confirm", email, "")

(* Mutant: resetPassword accepting a token at the instant it expires. *)
resetPasswordLateExpiry(items, email, token, newPassword, salt, date) ==
    IF ~EmailValidate(email) THEN Throw(400, "Email does not exist", "")
    ELSE LET k == FirstMatch(items, email, 1) IN
         IF k = 0 THEN Throw(400, "Email does not exist", "")
         ELSE LET item == items[k].attr IN
              IF Truthy(item.provider)
              THEN Throw(403, "You previously signed up using ${provider}, so you do not have a password to reset.",
                         item.provider.s)
              ELSE IF bcryptCompareThrows(newPassword, item.password_hash) THEN InternalError
              ELSE IF bcryptCompare(newPassword, item.password_hash)
              THEN Throw(400, "New password cannot be the same as your old password", "")
              ELSE IF item.resetToken = Undef \/ item.tokenExpiry = Undef
                      \/ item.resetToken = Str("") \/ item.tokenExpiry = Str("")
              THEN Throw(400, "Invalid Token", "")
              ELSE IF date > item.tokenExpiry.n
              THEN databaseEditUser(items[k].user_id,
                                    [f \in {"resetToken", "tokenExpiry"} |-> Str("")],
                                    400, "Invalid Token", "none", "", "")
              ELSE IF ~bcryptCompare(token, item.resetToken)
              THEN Throw(400, "Invalid Token", "")
              ELSE databaseEditUser(items[k].user_id,
                                    [f \in {"resetToken", "tokenExpiry", "password_hash"} |->
                                        IF f = "password_hash" THEN bcryptHash(newPassword, salt)
                                        ELSE Str("")],
                                    200, "", "confirm", email, "")

(* Mutant: resetPassword refusing an expired token without clearing it. *)
resetPasswordExpiryNoClear(items, email, token, newPassword, salt, date) ==
    IF ~EmailValidate(email) THEN Throw(400, "Email does not exist", "")
    ELSE LET k == FirstMatch(items, email, 1) IN
         IF k = 0 THEN Throw(400, "Email does not exist", "")
         ELSE LET item == items[k].attr IN
              IF Truthy(item.provider)
              THEN Throw(403, "You previously signed up using ${provider}, so you do not have a password to reset.",
                         item.provider.s)
              ELSE IF bcryptCompareThrows(newPassword, item.password_hash) THEN InternalError
              ELSE IF bcryptCompare(newPassword, item.password_hash)
              THEN Throw(400, "New password cannot be the same as your old password", "")
              ELSE IF item.resetToken = Undef \/ item.tokenExpiry = Undef
                      \/ item.resetToken = Str("") \/ item.tokenExpiry = Str("")
              THEN Throw(400, "Invalid Token", "")
              ELSE IF date >= item.tokenExpiry.n
              THEN Throw(400, "Invalid Token", "")
              ELSE IF ~bcryptCompare(token, item.resetToken)
              THEN Throw(400, "Invalid Token", "")
              ELSE databaseEditUser(items[k].user_id,
                                    [f \in {"resetToken", "tokenExpiry", "password_hash"} |->
                                        IF f = "password_hash" THEN bcryptHash(newPassword, salt)
                                        ELSE Str("")],
                                    200, "", "confirm", email, "")

(* Mutant: resetPassword clearing the pending reset at a token that does not match. *)
resetPasswordMismatchClears(items, email, token, newPassword, salt, date) ==
    IF ~EmailValidate(email) THEN Throw(400, "Email does not exist", "")
    ELSE LET k == FirstMatch(items, email, 1) IN
         IF k = 0 THEN Throw(400, "Email does not exist", "")
         ELSE LET item == items[k].attr IN
              IF Truthy(item.provider)
              THEN Throw(403, "You previously signed up using ${provider}, so you do not have a password to reset.",
                         item.provider.s)
              ELSE IF bcryptCompareThrows(newPassword, item.password_hash) THEN InternalError
              ELSE IF bcryptCompare(newPassword, item.password_hash)
              THEN Throw(400, "New password cannot be the same as your old password", "")
              ELSE IF item.resetToken = Undef \/ item.tokenExpiry = Undef
                      \/ item.resetToken = Str("") \/ item.tokenExpiry = Str("")
              THEN Throw(400, "Invalid Token", "")
              ELSE IF date >= item.tokenExpiry.n \/ ~bcryptCompare(token, item.resetToken)
              THEN databaseEditUser(items[k].user_id,
                                    [f \in {"resetToken", "tokenExpiry"} |-> Str("")],
                                    400, "Invalid Token", "none", "", "")
              ELSE databaseEditUser(items[k].user_id,
                                    [f \in {"resetToken", "tokenExpiry", "password_hash"} |->
                                        IF f = "password_hash" THEN bcryptHash(newPassword, salt)
                                        ELSE Str("")],
                                    200, "", "confirm", email, "")

(* Mutant: resetPassword testing the token before the reuse of the password. *)
resetPasswordReuseLast(items, email, token, newPassword, salt, date) ==
    IF ~EmailValidate(email) THEN Throw(400, "Email does not exist", "")
    ELSE LET k == FirstMatch(items, email, 1) IN
         IF k = 0 THEN Throw(400, "Email does not exist", "")
         ELSE LET item == items[k].attr IN
              IF Truthy(item.provider)
              THEN Throw(403, "You previously signed up using ${provider}, so you do not have a password to reset.",
                         item.provider.s)
              ELSE IF item.resetToken = Undef \/ item.tokenExpiry = Undef
                      \/ item.resetToken = Str("") \/ item.tokenExpiry = Str("")
              THEN Throw(400, "Invalid Token", "")
              ELSE IF date >= item.tokenExpiry.n
              THEN databaseEditUser(items[k].user_id,
                                    [f \in {"resetToken", "tokenExpiry"} |-> Str("")],
                                    400, "Invalid Token", "none", "", "")
              ELSE IF ~bcryptCompare(token, item.resetToken)
              THEN Throw(400, "Invalid Token", "")
              ELSE IF bcryptCompareThrows(newPassword, item.password_hash) THEN InternalError
              ELSE IF bcryptCompare(newPassword, item.password_hash)
              THEN Throw(400, "New password cannot be the same as your old password", "")
              ELSE databaseEditUser(items[k].user_id,
                                    [f \in {"resetToken", "tokenExpiry", "password_hash"} |->
                                        IF f = "password_hash" THEN bcryptHash(newPassword, salt)
                                        ELSE Str("")],
                                    200, "", "confirm", email, "")

(* Mutant: resetPassword clearing the token without writing the new hash. *)
resetPasswordKeepsHash(items, email, token, newPassword, salt, date) ==
    IF ~EmailValidate(email) THEN Throw(400, "Email does not exist", "")
    ELSE LET k == FirstMatch(items, email, 1) IN
         IF k = 0 THEN Throw(400, "Email does not exist", "")
         ELSE LET item == items[k].attr IN
              IF Truthy(item.provider)
              THEN Throw(403, "You previously signed up using ${provider}, so you do not have a password to reset.",
                         item.provider.s)
              ELSE IF bcryptCompareThrows(newPassword, item.password_hash) THEN InternalError
              ELSE IF bcryptCompare(newPassword, item.password_hash)
              THEN Throw(400, "New password cannot be the same as your old password", "")
              ELSE IF item.resetToken = Undef \/ item.tokenExpiry = Undef
                      \/ item.resetToken = Str("") \/ item.tokenExpiry = Str("")
              THEN Throw(400, "Invalid Token", "")
              ELSE IF date >= item.tokenExpiry.n
              THEN databaseEditUser(items[k].user_id,
                                    [f \in {"resetToken", "tokenExpiry"} |-> Str("")],
                                    400, "Invalid Token", "none", "", "")
              ELSE IF ~bcryptCompare(token, item.resetToken)
              THEN Throw(400, "Invalid Token", "")
              ELSE databaseEditUser(items[k].user_id,
                                    [f \in {"resetToken", "tokenExpiry"} |-> Str("")],
                                    200, "", "confirm", email, "")

resetPassword(items, email, token, newPassword, salt, date) ==
    IF ~EmailValidate(email) THEN Throw(400, "Email does not exist", "")
    ELSE LET k == FirstMatch(items, email, 1) IN
         IF k = 0 THEN Throw(400, "Email does not exist", "")
         ELSE LET item == items[k].attr IN
              IF Truthy(item.provider)
              THEN Throw(403, "You previously signed up using ${provider}, so you do not have a password to reset.",
                         item.provider.s)
              ELSE IF bcryptCompareThrows(newPassword, item.password_hash) THEN InternalError
              ELSE IF bcryptCompare(newPassword, item.password_hash)
              THEN Throw(400, "New password cannot be the same as your old password", "")
              ELSE IF item.resetToken = Undef \/ item.tokenExpiry = Undef
                      \/ item.resetToken = Str("") \/ item.tokenExpiry = Str("")
              THEN Throw(400, "Invalid Token", "")
              ELSE IF date >= item.tokenExpiry.n
              THEN databaseEditUser(items[k].user_id,
                                    [f \in {"resetToken", "tokenExpiry"} |-> Str("")],
                                    400, "Invalid Token", "none", "", "")
              ELSE IF ~bcryptCompare(token, item.resetToken)
              THEN Throw(400, "Invalid Token", "")
              ELSE databaseEditUser(items[k].user_id,
                                    [f \in {"resetToken", "tokenExpiry", "password_hash"} |->
                                        IF f = "password_hash" THEN bcryptHash(newPassword, salt)
                                        ELSE Str("")],
                                    200, "", "confirm", email, "")

(* Mutant: a table whose update has no condition and creates the item it does not find. *)
docClientSendUpsert(st, uuid, o) ==
    CASE o.cmd = "put" ->
            [ok |-> TRUE, id |-> uuid,
             store |-> [i \in DOMAIN st \cup {uuid} |-> IF i = uuid THEN o.fields ELSE st[i]]]
      [] o.cmd = "update" ->
            IF DOMAIN o.fields # {}
            THEN [ok |-> TRUE, id |-> o.id,
                  store |-> [i \in DOMAIN st \cup {o.key} |->
                                IF i # o.key THEN st[i]
                                ELSE [a \in Attrs |->
                                         IF a \in DOMAIN o.fields THEN o.fields[a]
                                         ELSE IF i \in DOMAIN st THEN st[i][a] ELSE Undef]]]
            ELSE [ok |-> FALSE, id |-> 0, store |-> st]
      [] o.cmd = "delete" ->
            IF o.key \in DOMAIN st
            THEN [ok |-> TRUE, id |-> o.id, store |-> [i \in DOMAIN st \ {o.key} |-> st[i]]]
            ELSE [ok |-> FALSE, id |-> 0, store |-> st]
      [] OTHER -> [ok |-> TRUE, id |-> o.id, store |-> st]

(* Mutant: a table whose put is conditional on no item having the email. *)
docClientSendUniqueEmail(st, uuid, o) ==
    CASE o.cmd = "put" ->
            IF \E i \in DOMAIN st : st[i].email = o.fields.email
            THEN [ok |-> FALSE, id |-> 0, store |-> st]
            ELSE [ok |-> TRUE, id |-> uuid,
                  store |-> [i \in DOMAIN st \cup {uuid} |-> IF i = uuid THEN o.fields ELSE st[i]]]
      [] o.cmd = "update" ->
            IF o.key \in DOMAIN st /\ DOMAIN o.fields # {}
            THEN [ok |-> TRUE, id |-> o.id,
                  store |-> [st EXCEPT ![o.key] =
                                [a \in Attrs |-> IF a \in DOMAIN o.fields THEN o.fields[a] ELSE @[a]]]]
            ELSE [ok |-> FALSE, id |-> 0, store |-> st]
      [] o.cmd = "delete" ->
            IF o.key \in DOMAIN st
            THEN [ok |-> TRUE, id |-> o.id, store |-> [i \in DOMAIN st \ {o.key} |-> st[i]]]
            ELSE [ok |-> FALSE, id |-> 0, store |-> st]
      [] OTHER -> [ok |-> TRUE, id |-> o.id, store |-> st]

(***************************************************************************)
(* Sending an outcome's store command to the table.  `uuid` is the id      *)
(* randomUUID gives databaseAddUser.  UpdateCommand and DeleteCommand are   *)
(* conditional on attribute_exists(user_id); an UpdateExpression that sets *)
(* nothing is rejected by the table.                                       *)
(***************************************************************************)
docClientSend(st, uuid, o) ==
    CASE o.cmd = "put" ->
            [ok |-> TRUE, id |-> uuid,
             store |-> [i \in DOMAIN st \cup {uuid} |-> IF i = uuid THEN o.fields ELSE st[i]]]
      [] o.cmd = "update" ->
            IF o.key \in DOMAIN st /\ DOMAIN o.fields # {}
            THEN [ok |-> TRUE, id |-> o.id,
                  store |-> [st EXCEPT ![o.key] =
                                [a \in Attrs |-> IF a \in DOMAIN o.fields THEN o.fields[a] ELSE @[a]]]]
            ELSE [ok |-> FALSE, id |-> 0, store |-> st]
      [] o.cmd = "delete" ->
            IF o.key \in DOMAIN st
            THEN [ok |-> TRUE, id |-> o.id, store |-> [i \in DOMAIN st \ {o.key} |-> st[i]]]
            ELSE [ok |-> FALSE, id |-> 0, store |-> st]
      [] OTHER -> [ok |-> TRUE, id |-> o.id, store |-> st]

(***************************************************************************)
(* The HTTP handlers.  A handler answers statusCode 200 with its payload,  *)
(* or the thrown error's statusCode (500 if it has none) and message.      *)
(***************************************************************************)
Response(op, status, msg, param, id, data) ==
    [op |-> op, status |-> status, msg |-> msg, param |-> param, id |-> id, data |-> data]
NoResponse == Response("", 0, "", "", 0, NoFields)
NoMail == [kind |-> "none", to |-> "", token |-> ""]

(* The handlers whose 200 body carries the user id. *)
IdRoutes == {"register", "authenticate", "handle-oauth"}

(* Mutant: a handler that puts the token the engine returned into its 200 body. *)
SettleEchoToken(op, o, w, sendOk) ==
    IF ~w.ok THEN Response(op, 400, "User Id does not exist", "", 0, NoFields)
    ELSE IF o.mail # "none" /\ ~sendOk
    THEN Response(op, 500, "Email failed to send", "", 0, NoFields)
    ELSE IF o.status # 200 THEN Response(op, o.status, o.msg, o.param, 0, NoFields)
    ELSE Response(op, 200, "", o.token, IF op \in IdRoutes THEN w.id ELSE 0,
                  IF o.cmd = "none" THEN o.fields ELSE NoFields)

(* The response of a handler whose engine call decided outcome o, whose    *)
(* store command ended as w, and whose email (if any) was sent or not.     *)
Settle(op, o, w, sendOk) ==
    IF ~w.ok THEN Response(op, 400, "User Id does not exist", "", 0, NoFields)
    ELSE IF o.mail # "none" /\ ~sendOk
    THEN Response(op, 500, "Email failed to send", "", 0, NoFields)
    ELSE IF o.status # 200 THEN Response(op, o.status, o.msg, o.param, 0, NoFields)
    ELSE Response(op, 200, "", "", IF op \in IdRoutes THEN w.id ELSE 0,
                  IF o.cmd = "none" THEN o.fields ELSE NoFields)

Delivered(o, w, sendOk) ==
    IF w.ok /\ o.mail # "none" /\ sendOk
    THEN [kind |-> o.mail, to |-> o.to, token |-> o.token]
    ELSE outbox

(* Mutant: a request that undoes its store command when its email fails. *)
HandleUndoOnMailFailure(op, o) ==
    /\ resp = NoResponse
    /\ o.cmd = "put" => nextId \in Ids
    /\ \E sendOk \in (IF o.mail = "none" THEN {TRUE} ELSE BOOLEAN) :
          LET w == docClientSend(store, nextId, o) IN
          /\ store' = IF o.mail # "none" /\ ~sendOk THEN store ELSE w.store
          /\ nextId' = IF o.cmd = "put" THEN nextId + 1 ELSE nextId
          /\ outbox' = Delivered(o, w, sendOk)
          /\ resp' = Settle(op, o, w, sendOk)
    /\ UNCHANGED <<now, pend>>

(* A whole request: the store command of outcome o, its email, its response. *)
(* The client sends its next request after it has read the last response.    *)
Handle(op, o) ==
    /\ resp = NoResponse
    /\ o.cmd = "put" => nextId \in Ids
    /\ \E sendOk \in (IF o.mail = "none" THEN {TRUE} ELSE BOOLEAN) :
          LET w == docClientSend(store, nextId, o) IN
          /\ store' = w.store
          /\ nextId' = IF o.cmd = "put" THEN nextId + 1 ELSE nextId
          /\ outbox' = Delivered(o, w, sendOk)
          /\ resp' = Settle(op, o, w, sendOk)
    /\ UNCHANGED <<now, pend>>

Register(username, password, email) ==
    \E items \in Scans(store), salt \in Salts :
        Handle("register", registerUser(items, username, password, email, salt))

(* handleAuthenticate reads the username of the authenticated id. *)
Authenticate(email, password) ==
    \E items \in Scans(store) :
        LET a == authenticateUser(items, email, password) IN
        Handle("authenticate",
               IF a.status = 200
               THEN LET g == getUserInfo(store, a.id, <<"username">>) IN
                    IF g.status = 200 THEN [g EXCEPT !.id = a.id] ELSE g
               ELSE a)

Oauth(username, provider, email) ==
    \E items \in Scans(store) :
        Handle("handle-oauth", authenticateOauthUser(items, username, provider, email))

SetInfo(userID, info) == Handle("set", setUserInfo(userID, info))

GetInfo(userID, fields) == Handle("get", getUserInfo(store, userID, fields))

ChangePW(email, oldPassword, newPassword) ==
    \E items \in Scans(store), salt \in Salts :
        Handle("change-pw", changePassword(items, email, oldPassword, newPassword, salt))

DeleteUser(userID) == Handle("delete", deleteUser(userID))

SendPasswordResetToken(email) ==
    \E items \in Scans(store), token \in Tokens, salt \in Salts :
        Handle("pw-reset-token", sendPasswordResetToken(items, email, token, salt, now))

ResetPassword(email, token, newPassword) ==
    \E items \in Scans(store), salt \in Salts :
        Handle("pw-reset", resetPassword(items, email, token, newPassword, salt, now))

HandleRegister ==
    /\ resp = NoResponse
    /\ \E u \in Usernames, p \in JsonPasswords, e \in RequestEmails : Register(u, p, e)
HandleAuthenticate ==
    /\ resp = NoResponse
    /\ \E e \in RequestEmails, p \in JsonPasswords : Authenticate(e, p)
HandleOauth ==
    /\ resp = NoResponse
    /\ \E u \in Usernames, v \in Providers, e \in RequestEmails : Oauth(u, v, e)
HandleSetInfo ==
    /\ resp = NoResponse
    /\ \E i \in Ids, info \in Infos : SetInfo(i, info)
HandleGetInfo ==
    /\ resp = NoResponse
    /\ \E i \in Ids, fields \in FieldLists : GetInfo(i, fields)
HandleChangePW ==
    /\ resp = NoResponse
    /\ \E e \in RequestEmails, p, q \in JsonPasswords : ChangePW(e, p, q)
HandleDeleteUser ==
    /\ resp = NoResponse
    /\ \E i \in Ids : DeleteUser(i)
HandleSendPasswordResetToken ==
    /\ resp = NoResponse
    /\ \E e \in RequestEmails : SendPasswordResetToken(e)
HandleResetPassword ==
    /\ resp = NoResponse
    /\ \E e \in RequestEmails, t \in Tokens, p \in JsonPasswords : ResetPassword(e, t, p)

(* The client reads the response. *)
Deliver ==
    /\ resp # NoResponse
    /\ resp' = NoResponse
    /\ UNCHANGED <<store, nextId, now, outbox, pend>>

(* An hour passes between two requests. *)
Tick ==
    /\ resp = NoResponse
    /\ now < MaxTime
    /\ now' = now + 1
    /\ UNCHANGED <<store, nextId, outbox, resp, pend>>

(***************************************************************************)
(* Concurrent requests (SpecConc).  Every await on docClient.send or on    *)
(* the email transport is a point where other invocations run: a request   *)
(* is its scan (Begin), then its store command (StoreSend), then its       *)
(* email (SendMail).  A request that throws before its store command, and  *)
(* the routes that send one command only, are single steps as in Spec.     *)
(* The requests overlap within one clock hour: the clock does not tick.    *)
(***************************************************************************)
Idle == [op |-> "", phase |-> "idle", o |-> Throw(0, "", "")]
Calls == 1..MaxCalls

(* The inputs of the concurrent requests. *)
ConcEmails == {"a@x.com"}
ConcPasswords == {"pw1", "pw2"}
ConcProviders == {"google"}
ConcTokens == {"t1"}

Sent(o) == [ok |-> TRUE, id |-> o.id, store |-> store]

(* A new request takes the first free invocation slot. *)
Begin(c, op, o) ==
    /\ pend[c] = Idle
    /\ \A d \in Calls : d < c => pend[d] # Idle
    /\ IF o.cmd = "none"
       THEN /\ resp = NoResponse
            /\ resp' = Settle(op, o, Sent(o), TRUE)
            /\ UNCHANGED pend
       ELSE /\ pend' = [pend EXCEPT ![c] = [op |-> op, phase |-> "send", o |-> o]]
            /\ UNCHANGED resp
    /\ UNCHANGED <<store, nextId, now, outbox>>

BeginRegister(c) ==
    \E u \in Usernames, p \in ConcPasswords, e \in ConcEmails,
       items \in Scans(store), salt \in Salts :
        Begin(c, "register", registerUser(items, u, p, e, salt))

BeginOauth(c) ==
    \E u \in Usernames, v \in ConcProviders, e \in ConcEmails, items \in Scans(store) :
        Begin(c, "handle-oauth", authenticateOauthUser(items, u, v, e))

BeginChangePW(c) ==
    \E e \in ConcEmails, p, q \in ConcPasswords, items \in Scans(store), salt \in Salts :
        Begin(c, "change-pw", changePassword(items, e, p, q, salt))

BeginSendPasswordResetToken(c) ==
    \E e \in ConcEmails, items \in Scans(store), token \in ConcTokens, salt \in Salts :
        Begin(c, "pw-reset-token", sendPasswordResetToken(items, e, token, salt, now))

BeginResetPassword(c) ==
    \E e \in ConcEmails, t \in ConcTokens, p \in ConcPasswords,
       items \in Scans(store), salt \in Salts :
        Begin(c, "pw-reset", resetPassword(items, e, t, p, salt, now))

(* Mutant: a request that goes on to its email although its store command failed. *)
StoreSendThenMailAnyway(c) ==
    /\ pend[c].phase = "send"
    /\ LET o == pend[c].o
           w == docClientSend(store, nextId, o)
       IN /\ o.cmd = "put" => nextId \in Ids
          /\ store' = w.store
          /\ nextId' = IF o.cmd = "put" THEN nextId + 1 ELSE nextId
          /\ IF o.mail # "none"
             THEN /\ pend' = [pend EXCEPT ![c].phase = "mail"]
                  /\ UNCHANGED resp
             ELSE /\ resp = NoResponse
                  /\ resp' = Settle(pend[c].op, o, w, TRUE)
                  /\ pend' = [pend EXCEPT ![c] = Idle]
    /\ UNCHANGED <<now, outbox>>

(* The store command of request c reaches the table. *)
StoreSend(c) ==
    /\ pend[c].phase = "send"
    /\ LET o == pend[c].o
           w == docClientSend(store, nextId, o)
       IN /\ o.cmd = "put" => nextId \in Ids
          /\ store' = w.store
          /\ nextId' = IF o.cmd = "put" THEN nextId + 1 ELSE nextId
          /\ IF w.ok /\ o.mail # "none"
             THEN /\ pend' = [pend EXCEPT ![c].phase = "mail"]
                  /\ UNCHANGED resp
             ELSE /\ resp = NoResponse
                  /\ resp' = Settle(pend[c].op, o, w, TRUE)
                  /\ pend' = [pend EXCEPT ![c] = Idle]
    /\ UNCHANGED <<now, outbox>>

(* The email of request c is handed to the transport, which delivers it or fails. *)
SendMail(c) ==
    /\ pend[c].phase = "mail"
    /\ resp = NoResponse
    /\ \E sendOk \in BOOLEAN :
          /\ outbox' = Delivered(pend[c].o, Sent(pend[c].o), sendOk)
          /\ resp' = Settle(pend[c].op, pend[c].o, Sent(pend[c].o), sendOk)
    /\ pend' = [pend EXCEPT ![c] = Idle]
    /\ UNCHANGED <<store, nextId, now>>

ConcSetInfo ==
    /\ resp = NoResponse
    /\ \E i \in Ids, info \in Infos : SetInfo(i, info)

ConcDeleteUser ==
    /\ resp = NoResponse
    /\ \E i \in Ids : DeleteUser(i)

Init ==
    /\ store = [i \in {} |-> [a \in Attrs |-> Undef]]
    /\ nextId = 1
    /\ now = 0
    /\ outbox = NoMail
    /\ resp = NoResponse
    /\ pend = [c \in Calls |-> Idle]

Next ==
    \/ HandleRegister
    \/ HandleAuthenticate
    \/ HandleOauth
    \/ HandleSetInfo
    \/ HandleGetInfo
    \/ HandleChangePW
    \/ HandleDeleteUser
    \/ HandleSendPasswordResetToken
    \/ HandleResetPassword
    \/ Deliver
    \/ Tick

Spec == Init /\ [][Next]_vars

NextConc ==
    \/ \E c \in Calls : BeginRegister(c)
    \/ \E c \in Calls : BeginOauth(c)
    \/ \E c \in Calls : BeginChangePW(c)
    \/ \E c \in Calls : BeginSendPasswordResetToken(c)
    \/ \E c \in Calls : BeginResetPassword(c)
    \/ \E c \in Calls : StoreSend(c)
    \/ \E c \in Calls : SendMail(c)
    \/ ConcSetInfo
    \/ ConcDeleteUser
    \/ Deliver

SpecConc == Init /\ [][NextConc]_vars

(***************************************************************************)
(* A failing table (SpecIO).  docClient.send rejects a command for a       *)
(* reason of the transport or the service (a timeout, throttling), not of  *)
(* the command's condition: nothing is written.  The scan, the get and the *)
(* put are awaited bare, so the rejection reaches the handler, which finds *)
(* no statusCode on it; the update and the delete are awaited in try /     *)
(* catch blocks that rethrow every rejection as "User Id does not exist".  *)
(***************************************************************************)
ServiceException == Throw(500, "${ServiceException}", "")

(* What the engine throws when docClient.send rejects command cmd. *)
docClientSendRejected(cmd) ==
    IF cmd \in {"update", "delete"} THEN Throw(400, "User Id does not exist", "")
    ELSE ServiceException

(* The routes whose engine function starts with a ScanCommand. *)
ScanRoutes == {"register", "authenticate", "handle-oauth", "change-pw",
               "pw-reset-token", "pw-reset"}

(* A request ends with the error o thrown at a command the table rejected. *)
Rejected(op, o) ==
    /\ resp = NoResponse
    /\ resp' = Response(op, o.status, o.msg, o.param, 0, NoFields)
    /\ UNCHANGED <<store, nextId, now, outbox, pend>>

(* The ScanCommand of a request is rejected. *)
ScanRejected ==
    /\ resp = NoResponse
    /\ \E op \in ScanRoutes : Rejected(op, ServiceException)

(* The GetCommand of getUserInfo is rejected: in /get, or in /authenticate *)
(* after the password verified.                                            *)
GetRejected ==
    /\ resp = NoResponse
    /\ \/ Rejected("get", ServiceException)
       \/ /\ \E e \in RequestEmails, p \in JsonPasswords, items \in Scans(store) :
                authenticateUser(items, e, p).status = 200
          /\ Rejected("authenticate", ServiceException)

(* The put, update or delete that outcome o sends is rejected, although the *)
(* table would have accepted it: the record it addresses is in the table   *)
(* and the update sets an attribute.                                       *)
SendRejected(op, o) ==
    /\ o.cmd # "none"
    /\ o.cmd \in {"update", "delete"} => o.key \in DOMAIN store
    /\ o.cmd = "update" => DOMAIN o.fields # {}
    /\ Rejected(op, docClientSendRejected(o.cmd))

(* The store command of a request is rejected. *)
CommandRejected ==
    /\ resp = NoResponse
    /\ \/ \E u \in Usernames, p \in JsonPasswords, e \in RequestEmails,
             items \in Scans(store), salt \in Salts :
              SendRejected("register", registerUser(items, u, p, e, salt))
       \/ \E u \in Usernames, v \in Providers, e \in RequestEmails, items \in Scans(store) :
              SendRejected("handle-oauth", authenticateOauthUser(items, u, v, e))
       \/ \E i \in Ids, info \in Infos : SendRejected("set", setUserInfo(i, info))
       \/ \E e \in RequestEmails, p, q \in JsonPasswords, items \in Scans(store), salt \in Salts :
              SendRejected("change-pw", changePassword(items, e, p, q, salt))
       \/ \E i \in Ids : SendRejected("delete", deleteUser(i))
       \/ \E e \in RequestEmails, items \in Scans(store), token \in Tokens, salt \in Salts :
              SendRejected("pw-reset-token", sendPasswordResetToken(items, e, token, salt, now))
       \/ \E e \in RequestEmails, t \in Tokens, p \in JsonPasswords,
             items \in Scans(store), salt \in Salts :
              SendRejected("pw-reset", resetPassword(items, e, t, p, salt, now))

NextIO ==
    \/ HandleRegister
    \/ HandleAuthenticate
    \/ HandleOauth
    \/ HandleSetInfo
    \/ HandleGetInfo
    \/ HandleChangePW
    \/ HandleDeleteUser
    \/ HandleSendPasswordResetToken
    \/ HandleResetPassword
    \/ ScanRejected
    \/ GetRejected
    \/ CommandRejected
    \/ Deliver
    \/ Tick

SpecIO == Init /\ [][NextIO]_vars

(***************************************************************************)
(* Field names in another letter case (SpecProfile).  setUserInfo and      *)
(* getUserInfo test field.toLowerCase() against the lists and then hand    *)
(* the name as it came to the UpdateExpression and ProjectionExpression,   *)
(* where DynamoDB tells attribute names apart by case.  The requests are   *)
(* registrations and /set and /get with the names in both cases.           *)
(***************************************************************************)
ProfileInfos ==
    { <<[field |-> "username", value |-> "bob"]>>,
      <<[field |-> "Username", value |-> "bob"]>>,
      <<[field |-> "Username", value |-> "alice"]>> }
ProfileFieldLists == { <<"username">>, <<"Username">> }

HandleSetProfile ==
    /\ resp = NoResponse
    /\ \E i \in Ids, info \in ProfileInfos : SetInfo(i, info)
HandleGetProfile ==
    /\ resp = NoResponse
    /\ \E i \in Ids, fields \in ProfileFieldLists : GetInfo(i, fields)

NextProfile ==
    \/ HandleRegister
    \/ HandleSetProfile
    \/ HandleGetProfile
    \/ HandleDeleteUser
    \/ Deliver

SpecProfile == Init /\ [][NextProfile]_vars

(***************************************************************************)
(* Vocabulary of the claims.                                               *)
(***************************************************************************)
(* The engine tests a record's mode by the truthiness of the attribute. *)
IsPasswordAccount(r) == Truthy(r.password_hash) /\ ~Truthy(r.provider)
IsOAuthAccount(r) == Truthy(r.provider) /\ ~Truthy(r.password_hash)
WithEmail(st, email) == {i \in DOMAIN st : st[i].email = Str(email)}
Unchanged == store' = store /\ nextId' = nextId /\ outbox' = outbox

(* C1: in every reachable state no two records have the same email, under  *)
(* any interleaving of the requests' scans and store commands (SpecConc).  *)
C1_UniqueEmail ==
    \A i, j \in DOMAIN store : i # j => store[i].email # store[j].email

(* C2: Register with an email some record already has (password or OAuth   *)
(* account) never succeeds, inserts no record and leaves the store         *)
(* unchanged; it answers 409, naming the provider of an OAuth record, when *)
(* the email is well-formed, and 400 "Invalid Email" when it is not (OAuth *)
(* sign-in stores the email it is given without validating it).            *)
C2_RegisterConflict ==
    [][\A u \in Usernames, p \in JsonPasswords, e \in RequestEmails :
          (resp'.op = "register" /\ WithEmail(store, e) # {} /\ Register(u, p, e)) =>
              /\ Unchanged
              /\ IF EmailValidate(e)
                 THEN /\ resp'.status = 409
                      /\ resp'.msg = "Email has been taken.${str}"
                      /\ \A i \in WithEmail(store, e) :
                            resp'.param =
                               (IF IsOAuthAccount(store[i]) THEN store[i].provider.s ELSE "")
                 ELSE resp' = Response("register", 400, "Invalid Email", "", 0, NoFields)]_vars

(* C2 as stated: Register with an email some record already has always     *)
(* answers 409 and leaves the store unchanged.                             *)
C2_RegisterAlwaysConflict ==
    [][\A u \in Usernames, p \in JsonPasswords, e \in RequestEmails :
          (resp'.op = "register" /\ WithEmail(store, e) # {} /\ Register(u, p, e)) =>
              (resp'.status = 409 /\ Unchanged)]_vars

C2_Witness ==
    /\ resp.op = "register" /\ resp.status = 409 /\ resp.param = "google"
    /\ \E i \in DOMAIN store : IsOAuthAccount(store[i])

(* C3: Authenticate answers the same 401 response when no record has the   *)
(* email as when a password account has it and the password is not the one *)
(* its hash was made from, for every password handleAuthenticate passes    *)
(* on; the store is unchanged in both cases.                               *)
AuthenticationError ==
    Response("authenticate", 401, "Authentication Error (Incorrect email or password)",
             "", 0, NoFields)

C3_AuthenticateIndistinguishable ==
    [][\A e \in RequestEmails, p \in JsonPasswords :
          (/\ resp'.op = "authenticate"
           /\ \/ WithEmail(store, e) = {}
              \/ \E i \in WithEmail(store, e) :
                    IsPasswordAccount(store[i]) /\ store[i].password_hash.s # p
           /\ Authenticate(e, p)) =>
              (resp' = AuthenticationError /\ Unchanged)]_vars

(* C4: every record has exactly one authentication mode: a password hash   *)
(* and no provider, or a provider and no password hash.                    *)
C4_ExactlyOneMode ==
    \A i \in DOMAIN store : IsPasswordAccount(store[i]) \/ IsOAuthAccount(store[i])

(* C5: a record is created with a password hash or with a provider, and no *)
(* step gives a record the attribute it was created without.               *)
C5_ModeFixed ==
    [][/\ \A i \in DOMAIN store' \ DOMAIN store :
             /\ resp'.op = "register" => store'[i].provider = Undef
             /\ resp'.op = "handle-oauth" => store'[i].password_hash = Undef
       /\ \A i \in DOMAIN store \cap DOMAIN store' :
             /\ store[i].password_hash = Undef => store'[i].password_hash = Undef
             /\ store[i].provider = Undef => store'[i].provider = Undef]_vars

C5_Witness ==
    /\ resp.op = "set" /\ resp.status = 200
    /\ \E i, j \in DOMAIN store :
          /\ IsPasswordAccount(store[i]) /\ Truthy(store[i].resetToken)
          /\ IsOAuthAccount(store[j])

(* C6: Authenticate on the email of an OAuth account answers 403 naming    *)
(* the provider, for every password, and leaves the store unchanged.       *)
C6_AuthenticateOAuthAccount ==
    [][\A e \in RequestEmails, p \in JsonPasswords :
       \A i \in WithEmail(store, e) :
          (resp'.op = "authenticate" /\ IsOAuthAccount(store[i]) /\ Authenticate(e, p)) =>
              /\ resp'.status = 403
              /\ resp'.msg = "You previously signed up using ${provider}. Please use that to sign in instead."
              /\ resp'.param = store[i].provider.s
              /\ Unchanged]_vars

C6_Witness ==
    /\ resp.op = "authenticate" /\ resp.status = 403
    /\ \E i \in DOMAIN store : IsOAuthAccount(store[i]) /\ store[i].provider.s = resp.param

(* C7: AuthenticateOrRegisterOAuth on the email of a password account      *)
(* answers 403 "you signed up with a password" for every provider, creates *)
(* no record and leaves the existing record unchanged.                     *)
C7_OauthOnPasswordAccount ==
    [][\A u \in Usernames, v \in Providers, e \in RequestEmails :
       \A i \in WithEmail(store, e) :
          (resp'.op = "handle-oauth" /\ IsPasswordAccount(store[i]) /\ Oauth(u, v, e)) =>
              /\ resp'.status = 403
              /\ resp'.msg = "You signed up with a password. Please sign in with your password instead."
              /\ Unchanged]_vars

C7_Witness ==
    /\ resp.op = "handle-oauth" /\ resp.status = 403
    /\ resp.msg = "You signed up with a password. Please sign in with your password instead."

(* C8: once an OAuth record with provider P has the email, a call with     *)
(* that email and P returns the record's user_id and creates nothing, and  *)
(* a call with another provider answers 403 naming P and changes nothing.  *)
C8_OauthFirstProviderWins ==
    [][\A u \in Usernames, v \in Providers, e \in RequestEmails :
       \A i \in WithEmail(store, e) :
          (resp'.op = "handle-oauth" /\ IsOAuthAccount(store[i]) /\ Oauth(u, v, e)) =>
              /\ Unchanged
              /\ IF store[i].provider = Str(v)
                 THEN resp' = Response("handle-oauth", 200, "", "", i, NoFields)
                 ELSE /\ resp'.status = 403
                      /\ resp'.msg = "You first signed up via ${provider}. Please use that provider instead."
                      /\ resp'.param = store[i].provider.s]_vars

(* A sign-in that returned an id older than the last one handed out. *)
C8_Witness ==
    /\ resp.op = "handle-oauth" /\ resp.status = 200
    /\ resp.id < nextId - 1

(* C9: in every record the reset token hash and the reset token expiry are *)
(* both absent or empty, or both present.                                  *)
C9_ResetFieldsPaired ==
    \A i \in DOMAIN store : Truthy(store[i].resetToken) <=> Truthy(store[i].tokenExpiry)

(* A reset is pending although its email failed to send. *)
C9_Witness ==
    /\ resp.op = "pw-reset-token" /\ resp.status = 500
    /\ \E i \in DOMAIN store : Truthy(store[i].resetToken) /\ Truthy(store[i].tokenExpiry)

(* C10: right after IssueResetToken succeeded for a password account,      *)
(* ResetPassword with the emailed token and a password other than the      *)
(* current one succeeds (its emails delivered); after it Authenticate with *)
(* the old password answers 401 and with the new one returns the same id.  *)
C10_IssueThenReset ==
    \A e \in Emails, t \in Tokens :
       \A i \in WithEmail(store, e) :
        (/\ resp = Response("pw-reset-token", 200, "", "", 0, NoFields)
         /\ outbox = [kind |-> "token", to |-> e, token |-> t]
         /\ IsPasswordAccount(store[i])) =>
            \A new \in Passwords, items \in Scans(store), salt \in Salts :
                LET old == store[i].password_hash.s
                    o == resetPassword(items, e, t, new, salt, now)
                    w == docClientSend(store, nextId, o)
                IN new # old =>
                      /\ Settle("pw-reset", o, w, TRUE) =
                            Response("pw-reset", 200, "", "", 0, NoFields)
                      /\ \A after \in Scans(w.store) :
                            /\ authenticateUser(after, e, old).status = 401
                            /\ authenticateUser(after, e, new) = Return(i)

C10_Witness ==
    /\ resp = Response("pw-reset", 200, "", "", 0, NoFields)
    /\ outbox.kind = "confirm"
    /\ \E i \in WithEmail(store, outbox.to) :
          IsPasswordAccount(store[i]) /\ store[i].resetToken = Str("")

(* A reset is pending on a record: the token hash and its expiry are set. *)
Pending(r) == Truthy(r.resetToken) /\ Truthy(r.tokenExpiry)

(* Only a pw-reset-token request whose update was sent makes a reset pending. *)
OnlyIssueMakesPending ==
    \A i \in DOMAIN store \cap DOMAIN store' :
        (~Pending(store[i]) /\ Pending(store'[i])) =>
            (resp'.op = "pw-reset-token" /\ resp'.status \in {200, 500})

C12_SingleUse ==
    [][\A c \in Calls :
          (/\ pend[c].op = "pw-reset" /\ pend[c].phase = "send"
           /\ pend[c].o.status = 200
           /\ pend[c].o.key \in DOMAIN store
           /\ StoreSend(c)) =>
              Pending(store[pend[c].o.key])]_vars

(* A pending reset that has not expired at `date`. *)
LiveAt(r, date) == Pending(r) /\ date < r.tokenExpiry.n

(* C13: a token expires one hour after its issue.  ResetPassword with the  *)
(* correct token at or after the expiry answers 400 and leaves the         *)
(* password hash alone, after which the token stays unusable (the reset is *)
(* cleared or still expired, and only a new issuance makes one usable);    *)
(* every ResetPassword on a record without a usable token answers 400; and *)
(* the correct token before the expiry is not answered "Invalid Token".    *)
C13_TokenExpiry ==
    [][/\ \A i \in DOMAIN store \cap DOMAIN store' :
             (~LiveAt(store[i], now) /\ LiveAt(store'[i], now')) =>
                 /\ resp'.op = "pw-reset-token" /\ resp'.status \in {200, 500}
                 /\ store'[i].tokenExpiry = Date(now + OneHour)
       /\ \A e \in RequestEmails, t \in Tokens, p \in Passwords :
          \A i \in WithEmail(store, e) :
             (resp'.op = "pw-reset" /\ IsPasswordAccount(store[i]) /\ ResetPassword(e, t, p)) =>
                 /\ ~LiveAt(store[i], now) =>
                       /\ resp'.status = 400
                       /\ store'[i].password_hash = store[i].password_hash
                       /\ ~LiveAt(store'[i], now')
                 /\ (LiveAt(store[i], now) /\ bcryptCompare(t, store[i].resetToken)) =>
                       resp'.msg # "Invalid Token"]_vars

(* The token was emailed, the hour passed, and ResetPassword cleared it. *)
C13_Witness ==
    /\ resp = Response("pw-reset", 400, "Invalid Token", "", 0, NoFields)
    /\ outbox.kind = "token"
    /\ now >= OneHour
    /\ \E i \in WithEmail(store, outbox.to) :
          store[i].resetToken = Str("") /\ store[i].tokenExpiry = Str("")

(* C14: SetProfile with a map that has a key outside the editable fields   *)
(* answers 400 and writes nothing, the editable keys of the same map       *)
(* included: GetProfile gives for every field list what it gave before.    *)
C14_SetProfileAllOrNothing ==
    [][\A i \in Ids, info \in Infos :
          (/\ resp'.op = "set"
           /\ \E k \in DOMAIN info : ToLowerCase(info[k].field) \notin ADDITIONAL_USER_FIELDS
           /\ SetInfo(i, info)) =>
              /\ resp'.status = 400
              /\ Unchanged
              /\ \A fields \in FieldLists :
                    getUserInfo(store', i, fields) = getUserInfo(store, i, fields)]_vars

(* A map with username and email was refused for its email, on a table with a record. *)
C14_Witness ==
    /\ resp = Response("set", 400, "User field '${field}' is invalid", "email", 0, NoFields)
    /\ \E i \in DOMAIN store : store[i].username = Str("alice")

(* C15: the response to a pw-reset-token request, success or failure,      *)
(* carries a message only and no token; a token that was generated left    *)
(* the engine in the email to the account's address.                      *)
C15_TokenNotInResponse ==
    resp.op = "pw-reset-token" =>
        /\ resp.data = NoFields /\ resp.id = 0
        /\ resp.msg \notin Tokens /\ resp.param \notin Tokens
        /\ resp.status = 200 => (outbox.kind = "token" /\ outbox.token \in Tokens)

C15_Witness ==
    /\ resp = Response("pw-reset-token", 200, "", "", 0, NoFields)
    /\ outbox.kind = "token" /\ outbox.token \in Tokens
    /\ \E i \in WithEmail(store, outbox.to) :
          store[i].resetToken = bcryptHash(outbox.token, store[i].resetToken.k)

(* C16: the insert of a registration or first OAuth sign-in is not tied to *)
(* its uniqueness scan: once the scan found the email free, the put adds   *)
(* the record under a new user_id and the call answers 200 with that id,  *)
(* whatever other requests have written to the table since the scan.       *)
C16_InsertAfterScan ==
    [][\A c \in Calls :
          (pend[c].phase = "send" /\ pend[c].o.cmd = "put" /\ StoreSend(c)) =>
              /\ nextId \notin DOMAIN store
              /\ DOMAIN store' = DOMAIN store \cup {nextId}
              /\ store'[nextId] = pend[c].o.fields
              /\ \A i \in DOMAIN store : store'[i] = store[i]
              /\ resp' = Response(pend[c].op, 200, "", "", nextId, NoFields)]_vars

(* Two registrations of one email both answered 200: two password accounts *)
(* with the email under distinct ids, the second just answered.            *)
C16_Witness ==
    /\ resp.op = "register" /\ resp.status = 200
    /\ \E i, j \in DOMAIN store :
          /\ i # j /\ resp.id = j
          /\ store[i].email = store[j].email
          /\ IsPasswordAccount(store[i]) /\ IsPasswordAccount(store[j])

C18_WrongTokenFrame ==
    [][\A e \in RequestEmails, t \in Tokens, p \in Passwords :
       \A i \in WithEmail(store, e) :
          (/\ resp'.op = "pw-reset"
           /\ IsPasswordAccount(store[i]) /\ LiveAt(store[i], now)
           /\ ~bcryptCompare(t, store[i].resetToken)
           /\ ResetPassword(e, t, p)) =>
              /\ resp'.status = 400
              /\ Unchanged
              /\ store'[i] = store[i]
              /\ \A tc \in Tokens, q \in Passwords, items \in Scans(store'), salt \in Salts :
                    (bcryptCompare(tc, store'[i].resetToken)
                        /\ ~bcryptCompare(q, store'[i].password_hash)) =>
                        LET o == resetPassword(items, e, tc, q, salt, now')
                            w == docClientSend(store', nextId', o)
                        IN /\ Settle("pw-reset", o, w, TRUE) =
                                 Response("pw-reset", 200, "", "", 0, NoFields)
                           /\ w.store[i].password_hash = bcryptHash(q, salt)]_vars

(* Every record has a pending, unexpired reset, and a ResetPassword was    *)
(* answered "Invalid Token": its token did not match.                     *)
C18_Witness ==
    /\ resp = Response("pw-reset", 400, "Invalid Token", "", 0, NoFields)
    /\ DOMAIN store # {}
    /\ \A i \in DOMAIN store : IsPasswordAccount(store[i]) /\ LiveAt(store[i], now)

(* The response of resetPassword to a new password that is the current one. *)
ReuseError ==
    Response("pw-reset", 400, "New password cannot be the same as your old password",
             "", 0, NoFields)

(* C19: ResetPassword with a new password that verifies against the        *)
(* record's current hash answers 400 "cannot reuse" and writes nothing,    *)
(* whatever the pending reset (absent, expired or valid) and the token.    *)
C19_ReuseCheckedFirst ==
    [][\A e \in RequestEmails, t \in Tokens, p \in Passwords :
       \A i \in WithEmail(store, e) :
          (/\ resp'.op = "pw-reset"
           /\ IsPasswordAccount(store[i]) /\ bcryptCompare(p, store[i].password_hash)
           /\ ResetPassword(e, t, p)) =>
              (resp' = ReuseError /\ Unchanged)]_vars

(* The reuse error was answered on a table whose resets have all expired   *)
(* and are still on their records.                                         *)
C19_Witness ==
    /\ resp = ReuseError
    /\ DOMAIN store # {}
    /\ \A i \in DOMAIN store :
          IsPasswordAccount(store[i]) /\ Pending(store[i]) /\ now >= store[i].tokenExpiry.n

(* C20: IssueResetToken writes the token hash and the expiry before it     *)
(* invokes the notifier: a request reaches its email only by the store     *)
(* command that put its fields on the record, the notifier is invoked only *)
(* for such a request, and a failing notifier answers 500 and leaves the   *)
(* table, with the pending reset, as it is.                                *)
C20_PersistThenNotify ==
    [][\A c \in Calls :
          /\ (pend[c].phase # "mail" /\ pend'[c].phase = "mail") =>
                /\ pend[c].phase = "send" /\ pend'[c].o = pend[c].o
                /\ pend[c].o.key \in DOMAIN store'
                /\ \A f \in DOMAIN pend[c].o.fields :
                      store'[pend[c].o.key][f] = pend[c].o.fields[f]
                /\ pend[c].op = "pw-reset-token" =>
                      /\ bcryptCompare(pend[c].o.token, store'[pend[c].o.key].resetToken)
                      /\ store'[pend[c].o.key].tokenExpiry = Date(now + OneHour)
          /\ (pend[c].op = "pw-reset-token" /\ pend[c].phase = "mail" /\ pend'[c] = Idle) =>
                /\ store' = store
                /\ \/ /\ resp' = Response("pw-reset-token", 200, "", "", 0, NoFields)
                      /\ outbox' = [kind |-> "token", to |-> pend[c].o.to,
                                    token |-> pend[c].o.token]
                   \/ /\ resp' = Response("pw-reset-token", 500, "Email failed to send",
                                          "", 0, NoFields)
                      /\ outbox' = outbox
          /\ outbox' # outbox => \E d \in Calls : pend[d].phase = "mail" /\ pend'[d] = Idle]_vars

(* The notifier failed before any email was delivered; the reset is pending. *)
C20_Witness ==
    /\ resp = Response("pw-reset-token", 500, "Email failed to send", "", 0, NoFields)
    /\ outbox = NoMail
    /\ \E i \in DOMAIN store : IsPasswordAccount(store[i]) /\ LiveAt(store[i], now)

(* C21: when every check of ResetPassword passes, the record gets the hash *)
(* of the new password and both reset fields cleared in one update, and    *)
(* nothing else changes; if the "password changed" email then fails, the   *)
(* call answers 500 and the update stays: Authenticate with the new        *)
(* password returns the record's id.                                       *)
C21_NotifyFailureNoRollback ==
    [][\A e \in RequestEmails, t \in Tokens, p \in Passwords :
       \A i \in WithEmail(store, e) :
          (/\ resp'.op = "pw-reset"
           /\ IsPasswordAccount(store[i]) /\ LiveAt(store[i], now)
           /\ bcryptCompare(t, store[i].resetToken)
           /\ ~bcryptCompare(p, store[i].password_hash)
           /\ ResetPassword(e, t, p)) =>
              /\ \E salt \in Salts :
                    store' = [store EXCEPT ![i].password_hash = bcryptHash(p, salt),
                                           ![i].resetToken = Str(""),
                                           ![i].tokenExpiry = Str("")]
              /\ nextId' = nextId
              /\ \A items \in Scans(store') : authenticateUser(items, e, p) = Return(i)
              /\ \/ /\ resp' = Response("pw-reset", 200, "", "", 0, NoFields)
                    /\ outbox' = [kind |-> "confirm", to |-> e, token |-> ""]
                 \/ /\ resp' = Response("pw-reset", 500, "Email failed to send", "", 0, NoFields)
                    /\ outbox' = outbox]_vars

(* The confirmation email failed: the last email delivered is still the    *)
(* token, and the record has the new password and no pending reset.        *)
C21_Witness ==
    /\ resp = Response("pw-reset", 500, "Email failed to send", "", 0, NoFields)
    /\ outbox.kind = "token"
    /\ \E i \in WithEmail(store, outbox.to) :
          /\ IsPasswordAccount(store[i])
          /\ store[i].resetToken = Str("") /\ store[i].tokenExpiry = Str("")

(* C22: a request whose scan, get, put, update or delete the table rejects *)
(* for a reason other than a missing id answers 500, and nothing is        *)
(* written.                                                                *)
C22_StoreFailureIsInternal ==
    [][(ScanRejected \/ GetRejected \/ CommandRejected) =>
          (resp'.status = 500 /\ Unchanged)]_vars

(* C23: after a SetProfile that succeeded with a key the allow-list accepts *)
(* in any letter case, GetProfile of that key returns the value set, and   *)
(* GetProfile of the canonical (lower-case) name returns it as well.       *)
C23_SetThenGet ==
    [][\A i \in Ids, info \in ProfileInfos :
          (resp'.op = "set" /\ resp'.status = 200 /\ SetInfo(i, info)) =>
              \A k \in DOMAIN info :
                 \A name \in {info[k].field, ToLowerCase(info[k].field)} :
                    LET g == getUserInfo(store', i, <<name>>) IN
                    /\ g.status = 200
                    /\ name \in DOMAIN g.fields
                    /\ g.fields[name] = Str(info[k].value)]_vars

(* C24: ChangePassword with a new password equal to the old one answers   *)
(* 400 "cannot be the same" and changes nothing, whether the email is      *)
(* unknown, malformed, of an OAuth account or of a password account with   *)
(* another password; the engine decides so whatever the table holds.       *)
C24_SamePasswordRejected ==
    [][\A e \in RequestEmails, p \in Passwords :
          (resp'.op = "change-pw" /\ ChangePW(e, p, p)) =>
              /\ resp' = Response("change-pw", 400,
                                  "New password cannot be the same as your old password",
                                  "", 0, NoFields)
              /\ Unchanged
              /\ \A items \in Scans(store), salt \in Salts :
                    changePassword(items, e, p, p, salt).cmd = "none"]_vars

(* The error was answered on a table of OAuth accounts only. *)
C24_Witness ==
    /\ resp = Response("change-pw", 400,
                       "New password cannot be the same as your old password", "", 0, NoFields)
    /\ DOMAIN store # {}
    /\ \A i \in DOMAIN store : IsOAuthAccount(store[i])

(* C25: ChangePassword with a new password other than the old one answers *)
(* 403 "cannot change ... third-party provider" when an OAuth account has  *)
(* the email, and the 401 of Authenticate when no record has the email or  *)
(* the old password does not verify against the password account that has  *)
(* it; whenever it fails, every record keeps its password hash.            *)
C25_ChangePasswordFailures ==
    [][\A e \in RequestEmails, p, q \in Passwords :
          (resp'.op = "change-pw" /\ p # q /\ ChangePW(e, p, q)) =>
              /\ (\E i \in WithEmail(store, e) : IsOAuthAccount(store[i])) =>
                    resp' = Response("change-pw", 403,
                                     "You cannot change your password as you signed in with a third-party provider.",
                                     "", 0, NoFields)
              /\ (\/ WithEmail(store, e) = {}
                  \/ \E i \in WithEmail(store, e) :
                        /\ IsPasswordAccount(store[i])
                        /\ ~bcryptCompare(p, store[i].password_hash)) =>
                    /\ resp' = Response("change-pw", 401,
                                        "Authentication Error (Incorrect email or password)",
                                        "", 0, NoFields)
                    /\ \A items \in Scans(store) :
                          authenticateUser(items, e, p).status = resp'.status
                          /\ authenticateUser(items, e, p).msg = resp'.msg
              /\ resp'.status # 200 =>
                    /\ DOMAIN store' = DOMAIN store
                    /\ \A i \in DOMAIN store : store'[i].password_hash = store[i].password_hash]_vars

(* A change of password was refused for an OAuth account that is in the table. *)
C25_Witness ==
    /\ resp = Response("change-pw", 403,
                       "You cannot change your password as you signed in with a third-party provider.",
                       "", 0, NoFields)
    /\ \E i, j \in DOMAIN store : IsOAuthAccount(store[i]) /\ IsPasswordAccount(store[j])

(* C26: a ChangePassword that succeeds on a password account overwrites   *)
(* the password hash of that record and nothing else in the table; after   *)
(* it Authenticate with the new password returns the id that the old       *)
(* password returned before, and with the old password answers 401.        *)
C26_ChangePasswordSuccess ==
    [][\A e \in RequestEmails, p, q \in Passwords :
       \A i \in WithEmail(store, e) :
          (/\ resp'.op = "change-pw" /\ resp'.status = 200
           /\ IsPasswordAccount(store[i])
           /\ ChangePW(e, p, q)) =>
              /\ \A items \in Scans(store) : authenticateUser(items, e, p) = Return(i)
              /\ \E salt \in Salts :
                    store' = [store EXCEPT ![i].password_hash = bcryptHash(q, salt)]
              /\ nextId' = nextId /\ outbox' = outbox
              /\ \A items \in Scans(store') :
                    /\ authenticateUser(items, e, q) = Return(i)
                    /\ authenticateUser(items, e, p) =
                          Throw(401, "Authentication Error (Incorrect email or password)", "")]_vars

(* A password was changed on a record whose reset is pending, next to another record. *)
C26_Witness ==
    /\ resp = Response("change-pw", 200, "", "", 0, NoFields)
    /\ \E i, j \in DOMAIN store :
          /\ i # j
          /\ IsPasswordAccount(store[i]) /\ Pending(store[i])
          /\ store[i].password_hash.s = "pw2"

(* The response of sendPasswordResetToken to a malformed or unknown email. *)
EmailDoesNotExist ==
    Response("pw-reset-token", 400, "Email does not exist", "", 0, NoFields)

(* C27: IssueResetToken answers the same 400 "Email does not exist" for a  *)
(* malformed email (whatever record holds it) and for a well-formed email  *)
(* no record has, and 403 naming the provider for a well-formed email an   *)
(* OAuth account has; in the three cases it sends no store command and no  *)
(* email, and table and outbox are unchanged.                              *)
C27_IssueFailures ==
    [][\A e \in RequestEmails :
          (/\ resp'.op = "pw-reset-token"
           /\ \/ ~EmailValidate(e)
              \/ WithEmail(store, e) = {}
              \/ \E i \in WithEmail(store, e) : IsOAuthAccount(store[i])
           /\ SendPasswordResetToken(e)) =>
              /\ IF ~EmailValidate(e) \/ WithEmail(store, e) = {}
                 THEN resp' = EmailDoesNotExist
                 ELSE \A i \in WithEmail(store, e) :
                         resp' = Response("pw-reset-token", 403,
                                          "You previously signed up using ${provider}, so you do not have a password to reset.",
                                          store[i].provider.s, 0, NoFields)
              /\ Unchanged
              /\ \A items \in Scans(store), token \in Tokens, salt \in Salts :
                    LET o == sendPasswordResetToken(items, e, token, salt, now)
                    IN o.cmd = "none" /\ o.mail = "none"]_vars

(* C27 as stated: IssueResetToken answers 403 whenever the record with the *)
(* email is an OAuth account, and 400 when the email is malformed or no    *)
(* record has it.                                                          *)
C27_IssueForbiddenOnEveryOAuth ==
    [][\A e \in RequestEmails :
          (resp'.op = "pw-reset-token" /\ SendPasswordResetToken(e)) =>
              /\ (\E i \in WithEmail(store, e) : IsOAuthAccount(store[i])) =>
                    (resp'.status = 403 /\ Unchanged)
              /\ (~EmailValidate(e) \/ WithEmail(store, e) = {}) =>
                    (resp' = EmailDoesNotExist /\ Unchanged)]_vars

(* A token was refused to an OAuth account, named by its provider, next to *)
(* a password account; no email has been sent.                             *)
C27_Witness ==
    /\ resp.op = "pw-reset-token" /\ resp.status = 403
    /\ outbox = NoMail
    /\ \E i, j \in DOMAIN store :
          /\ IsOAuthAccount(store[i]) /\ store[i].provider.s = resp.param
          /\ IsPasswordAccount(store[j])

(* C28: a pending reset is reached from a password account only: in every *)
(* reachable state a record with a non-empty reset token hash or reset     *)
(* token expiry is a password account, so no record made by an OAuth       *)
(* sign-in has one.                                                        *)
C28_PendingOnlyOnPasswordAccount ==
    \A i \in DOMAIN store :
        (Truthy(store[i].resetToken) \/ Truthy(store[i].tokenExpiry)) =>
            IsPasswordAccount(store[i])

(* What follows the removal of record i, which had email e, in table st    *)
(* with next id uuid: Authenticate with e answers 401, DeleteUser of i     *)
(* answers 400 and changes nothing, and Register with e, for the emails in *)
(* `registrable`, answers 200 with a new record under a new id that has no *)
(* reset fields.                                                           *)
AfterDelete(st, uuid, i, e, registrable) ==
    /\ \A p \in JsonPasswords, items \in Scans(st) :
          authenticateUser(items, e, p) =
             Throw(401, "Authentication Error (Incorrect email or password)", "")
    /\ LET w == docClientSend(st, uuid, deleteUser(i))
       IN /\ Settle("delete", deleteUser(i), w, TRUE) =
                Response("delete", 400, "User Id does not exist", "", 0, NoFields)
          /\ w.store = st
    /\ (e \in registrable /\ uuid \in Ids) =>
          \A u \in Usernames, p \in Passwords, items \in Scans(st), salt \in Salts :
             LET o == registerUser(items, u, p, e, salt)
                 w == docClientSend(st, uuid, o)
             IN /\ Settle("register", o, w, TRUE) =
                      Response("register", 200, "", "", uuid, NoFields)
                /\ uuid # i /\ uuid \notin DOMAIN st
                /\ w.store[uuid].email = Str(e)
                /\ w.store[uuid].resetToken = Undef /\ w.store[uuid].tokenExpiry = Undef

(* DeleteUser of an id no record has answers 400 and changes nothing; of   *)
(* an id in the table, it removes the record whole and nothing else, and   *)
(* AfterDelete holds of the table it leaves.                               *)
DeleteEffect(registrable) ==
    \A i \in Ids :
       (resp'.op = "delete" /\ DeleteUser(i)) =>
          IF i \notin DOMAIN store
          THEN /\ resp' = Response("delete", 400, "User Id does not exist", "", 0, NoFields)
               /\ Unchanged
          ELSE /\ resp' = Response("delete", 200, "", "", 0, NoFields)
               /\ store' = [j \in DOMAIN store \ {i} |-> store[j]]
               /\ nextId' = nextId /\ outbox' = outbox
               /\ AfterDelete(store', nextId', i, store[i].email.s, registrable)

(* C29: DeleteUser answers 400 and changes nothing when no record has the  *)
(* id; otherwise it removes the record whole, after which Authenticate     *)
(* with its email answers 401, a second DeleteUser of the id answers 400,  *)
(* and Register with its email, if the email is well-formed, succeeds with *)
(* a new record that has no pending reset.                                 *)
C29_DeleteUser == [][DeleteEffect(Emails)]_vars

(* C29 as stated: after the delete, Register with the record's email       *)
(* succeeds, whatever the email.                                           *)
C29_DeleteThenRegisterAlways == [][DeleteEffect(RequestEmails)]_vars

(* The first record was deleted after a token was emailed to its address;  *)
(* the registration of that address that followed made a record that never *)
(* had a reset field.                                                      *)
C29_Witness ==
    /\ resp = Response("register", 200, "", "", 2, NoFields)
    /\ DOMAIN store = {2}
    /\ outbox.kind = "token" /\ store[2].email = Str(outbox.to)
    /\ store[2].resetToken = Undef /\ store[2].tokenExpiry = Undef

(* C30: an update never brings a deleted record back.  A user_id that was *)
(* handed out and is no longer in the table is in the table in no later    *)
(* state; the update of a ChangePassword, IssueResetToken or ResetPassword *)
(* that scanned the record before its deletion, and a SetProfile of the    *)
(* id, are rejected: they answer 400 and write nothing.                    *)
C30_NoResurrection ==
    [][/\ \A i \in Ids : (i < nextId /\ i \notin DOMAIN store) => i \notin DOMAIN store'
       /\ \A c \in Calls :
             (/\ pend[c].phase = "send" /\ pend[c].o.cmd = "update"
              /\ pend[c].o.key \notin DOMAIN store
              /\ StoreSend(c)) =>
                 /\ store' = store /\ outbox' = outbox
                 /\ pend'[c] = Idle
                 /\ resp' = Response(pend[c].op, 400, "User Id does not exist", "", 0, NoFields)
       /\ \A i \in Ids, info \in Infos :
             (resp'.op = "set" /\ i \notin DOMAIN store /\ SetInfo(i, info)) =>
                 (resp'.status = 400 /\ Unchanged)]_vars

(* The update of a password change found its record deleted: the only      *)
(* record ever made is gone and the change was answered "does not exist".  *)
C30_Witness ==
    /\ resp = Response("change-pw", 400, "User Id does not exist", "", 0, NoFields)
    /\ DOMAIN store = {}
    /\ nextId = 2

(* C31: at most one reset token is valid per account.  An IssueResetToken   *)
(* that succeeds on a record whose reset is pending overwrites the token    *)
(* hash with the hash of the token it emails and the expiry with one hour  *)
(* from now, and nothing else; after it ResetPassword with any other token *)
(* (the earlier one) answers 400 and leaves the password hash alone, and   *)
(* ResetPassword with the emailed token and a password other than the      *)
(* current one succeeds.                                                   *)
C31_LatestTokenWins ==
    [][\A e \in RequestEmails :
       \A i \in WithEmail(store, e) :
          (/\ resp'.op = "pw-reset-token" /\ resp'.status = 200
           /\ IsPasswordAccount(store[i]) /\ Pending(store[i])
           /\ SendPasswordResetToken(e)) =>
              /\ outbox'.kind = "token" /\ outbox'.to = e /\ outbox'.token \in Tokens
              /\ \E salt \in Salts :
                    store' = [store EXCEPT ![i].resetToken = bcryptHash(outbox'.token, salt),
                                           ![i].tokenExpiry = Date(now + OneHour)]
              /\ nextId' = nextId
              /\ \A t \in Tokens, q \in Passwords, items \in Scans(store'), salt \in Salts :
                    LET o == resetPassword(items, e, t, q, salt, now')
                        w == docClientSend(store', nextId', o)
                        r == Settle("pw-reset", o, w, TRUE)
                    IN IF t # outbox'.token
                       THEN /\ r.status = 400
                            /\ w.store = store'
                            /\ ~bcryptCompare(q, store[i].password_hash) =>
                                  r = Response("pw-reset", 400, "Invalid Token", "", 0, NoFields)
                       ELSE ~bcryptCompare(q, store[i].password_hash) =>
                               /\ r = Response("pw-reset", 200, "", "", 0, NoFields)
                               /\ w.store[i].password_hash = bcryptHash(q, salt)]_vars

(* The token of the last hour's issuance is the one emailed and stored on  *)
(* the only record ever made, and a ResetPassword with the other token was *)
(* answered "Invalid Token".                                              *)
C31_Witness ==
    /\ resp = Response("pw-reset", 400, "Invalid Token", "", 0, NoFields)
    /\ now = MaxTime /\ nextId = 2
    /\ outbox.kind = "token" /\ outbox.token = "t2"
    /\ \E i \in WithEmail(store, outbox.to) :
          /\ IsPasswordAccount(store[i])
          /\ bcryptCompare("t2", store[i].resetToken)
          /\ store[i].tokenExpiry = Date(now + OneHour)

(* C32: a ChangePassword that succeeds leaves the reset token hash and the *)
(* reset token expiry of the record as they were; if the reset was pending *)
(* and not expired, ResetPassword with the token issued before the change  *)
(* and a password other than the changed one still succeeds, and with the  *)
(* changed password it answers the reuse error.                            *)
C32_ChangeKeepsPendingReset ==
    [][\A e \in RequestEmails, p, q \in Passwords :
       \A i \in WithEmail(store, e) :
          (/\ resp'.op = "change-pw" /\ resp'.status = 200
           /\ IsPasswordAccount(store[i])
           /\ ChangePW(e, p, q)) =>
              /\ store'[i].resetToken = store[i].resetToken
              /\ store'[i].tokenExpiry = store[i].tokenExpiry
              /\ LiveAt(store[i], now) =>
                    /\ LiveAt(store'[i], now')
                    /\ \A t \in Tokens, n \in Passwords, items \in Scans(store'), salt \in Salts :
                          bcryptCompare(t, store[i].resetToken) =>
                             LET o == resetPassword(items, e, t, n, salt, now')
                                 w == docClientSend(store', nextId', o)
                                 r == Settle("pw-reset", o, w, TRUE)
                             IN IF n = q
                                THEN r = ReuseError /\ w.store = store'
                                ELSE /\ r = Response("pw-reset", 200, "", "", 0, NoFields)
                                     /\ w.store[i].password_hash = bcryptHash(n, salt)
                                     /\ w.store[i].resetToken = Str("")
                                     /\ w.store[i].tokenExpiry = Str("")]_vars

(* A password was changed on the only record ever made while the reset     *)
(* whose token was emailed to its address is pending and not expired.      *)
C32_Witness ==
    /\ resp = Response("change-pw", 200, "", "", 0, NoFields)
    /\ nextId = 2
    /\ outbox.kind = "token"
    /\ \E i \in WithEmail(store, outbox.to) :
          /\ IsPasswordAccount(store[i]) /\ LiveAt(store[i], now)
          /\ bcryptCompare(outbox.token, store[i].resetToken)

====
